---- MODULE Spec2Model ----
(***************************************************************************)
(* HUD Properties Cloud Dashboard (src/app.py).                            *)
(*                                                                         *)
(* The model covers DropboxDatabaseSync (construction and sync_database),  *)
(* the module initialisation (initial sync, scheduler registration), the   *)
(* timer-driven job, /api/force_sync and the read handlers as readers of   *)
(* the local database file (Spec, and LiveSpec with fairness); the SQL of  *)
(* /api/dashboard_stats and /api/properties on the content of the tables   *)
(* (QuerySpec); and the script of the dashboard page: the table, its       *)
(* filters and sorting (UiSpec), and the status line, the tiles and the    *)
(* 'Force Sync' button (PageSpec).                                         *)
(*                                                                         *)
(* sync_database is executed by three threads of control: "main" (the      *)
(* initial sync at import time), "timer" (the BackgroundScheduler job) and *)
(* "req" (the request being handled, /api/force_sync).  The code holds no  *)
(* lock, so the steps of the threads interleave statement by statement.    *)
(* The scheduler runs one instance of its job at a time and requests are   *)
(* handled one at a time; the timer thread runs beside the request thread. *)
(*                                                                         *)
(* The local file is a sequence of chunks: open(..., 'wb') truncates it,   *)
(* each write() puts one chunk at the writer's own offset.  The remote     *)
(* side is an input: each download returns one of the database versions or *)
(* raises.                                                                 *)
(***************************************************************************)
EXTENDS Integers, Sequences, FiniteSets, TLC

\* ------------------------------------------------------------------ bounds
\* Number of write() chunks a downloaded database is written in.
FileLen == 2
\* Largest value of the wall clock (in ticks); the clock starts at 1.
MaxClock == 2
\* Number of distinct remote database contents that a download can return.
NumVersions == 2

\* Largest number of rows of the properties table.
MaxRows == 2
\* Largest number of rows /api/properties answers to the page.
MaxProps == 2
\* The page limit of /api/properties (LIMIT 1000, line 818), scaled to the
\* table sizes explored so that more rows qualify than the limit admits.
PageLimit == 1

\* Clock ticks per second: datetime.now() has sub-second resolution,
\* strftime('%Y-%m-%d %H:%M:%S') keeps whole seconds.
TicksPerSec == 2

\* ------------------------------------------------------------- definitions
Threads == {"main", "timer", "req"}
ReadHandlers == {"sync_status", "dashboard_stats", "get_properties"}

\* The credential: absent (empty DROPBOX_TOKEN), or present and such that
\* dropbox.Dropbox(token) raises, users_get_current_account() raises, or the
\* identity check succeeds.
Credentials == {"absent", "client_raises", "check_raises", "check_ok"}

\* last_sync = None
None == 0
\* SQL NULL / JSON null / Python None in a text position of a row or a
\* payload, and in a numeric position.
NULL == "NULL"
NullNum == -1

Versions == 1..NumVersions
\* A chunk of the file: v \in Versions is a chunk of remote content v,
\* Hole is a zero-filled gap left by a write past the end of the file,
\* SchemaPage is the page sqlite writes for CREATE TABLE properties (six
\* columns, no rows), OldPage is the content of a file left by an earlier
\* process.
Hole == 0
SchemaPage == -1
OldPage == -2

\* The complete content of remote database version v.
ContentOf(v) == [i \in 1..FileLen |-> v]
\* The database sqlite creates from nothing: a properties table with the
\* six columns case_number, scrape_date, state, address, price, status.
EmptyDb == <<SchemaPage>>
OldDb == [i \in 1..FileLen |-> OldPage]

Absent == [exists |-> FALSE, data |-> <<>>]
FileOf(d) == [exists |-> TRUE, data |-> d]

\* A file a reader can query as a whole database: a complete download, the
\* bootstrapped database or the file found at start-up.
CompleteData == {ContentOf(v) : v \in Versions} \cup {EmptyDb, OldDb}
IsComplete(f) == f.exists => f.data \in CompleteData

\* Messages of exceptions, as sequences of path segments ("a/b" is <<"a","b">>).
ApiMsgs == {<<"path", "not_found">>, <<"path", "restricted_content">>}
OtherMsgs == {<<"connection reset">>}
IoMsgs == {<<"No space left on device">>}
ConnMsgs == {<<"invalid_access_token">>}

\* 'path/not_found' in str(e)
IsInfix(p, s) ==
    \E i \in 0..(Len(s) - Len(p)) : \A j \in 1..Len(p) : s[i + j] = p[j]

\* strftime('%Y-%m-%d %H:%M:%S'): the timestamp cut to whole seconds.
Strftime(t) == t \div TicksPerSec

Status(text, msg, at) == [text |-> text, msg |-> msg, at |-> at]
NotInitialized == Status("Not initialized", <<>>, -1)
Connected == Status("Connected", <<>>, -1)
ConnectionFailed(m) == Status("Connection failed: ", m, -1)
SyncedAt(s) == Status("Synced at ", <<>>, s)
ApiErrorStatus(m) == Status("Dropbox API error: ", m, -1)
SyncErrorStatus(m) == Status("Sync error: ", m, -1)
NoDatabaseStatus == Status("No database in Dropbox yet - using empty database", <<>>, -1)

VARIABLES
    phase,        \* position of the module initialisation
    cred,         \* DROPBOX_TOKEN and what the remote account answers to it
    enabled,      \* db_sync.enabled
    sync_status,  \* db_sync.sync_status
    last_sync,    \* db_sync.last_sync
    file,         \* the file at LOCAL_DB_PATH
    clock,        \* the latest time datetime.now() has returned
    scheduled,    \* the 'db_sync' job is registered and the scheduler runs
    pc,           \* position of each thread inside sync_database
    loc,          \* locals of each running sync_database invocation
    calls,        \* remote calls made so far
    seen,         \* what the read handler of the latest step found
    resp,         \* the /api/force_sync response sent in the latest step
    table,        \* rows of the properties table of the local database
    analytics,    \* rows of the property_analytics table
    schema,       \* which tables and columns the local database has
    out,          \* the JSON payload of the latest query handler
    served,             \* the list /api/properties answers to the page
    allProperties,      \* script variables of the dashboard page
    filteredProperties,
    currentStatusFilter,
    sortColumn,
    sortDirection,
    state_filter,       \* values of the filter controls
    price_filter,
    beds_filter,
    search_input,
    properties_tbody,   \* what the table body shows
    result_count,       \* text of the result counter
    sync_text,          \* what the sync status line shows
    stats_grid,         \* what the statistics tiles show
    btn,                \* the 'Force Sync' button
    alerted,            \* the alert the latest step of the page has raised
    reloading           \* loads forceSync has called and not yet answered

\* The state of the sync component, the scheduler and the request threads.
syncVars == <<phase, cred, enabled, sync_status, last_sync, file, clock,
              scheduled, pc, loc, calls, seen, resp>>
\* The content of the database as the SQL of the handlers sees it, and what
\* the handlers answer.
queryVars == <<table, analytics, schema, out>>
\* The dashboard page in the browser.
\* The sync status line, the statistics tiles and the 'Force Sync' button.
pageVars == <<sync_text, stats_grid, btn, alerted, reloading>>
uiVars == <<served, allProperties, filteredProperties, currentStatusFilter,
            sortColumn, sortDirection, state_filter, price_filter,
            beds_filter, search_input, properties_tbody, result_count,
            pageVars>>
viewVars == <<queryVars, uiVars>>

vars == <<syncVars, viewVars>>

\* Locals of an invocation that is not running.
\* wrote: this invocation has changed the local file.
NoLocals == [content |-> 0, off |-> 0, now |-> 0, fmt |-> -1, err |-> <<>>,
             result |-> "none", why |-> "none", wrote |-> FALSE]

NoAnswer == [http |-> 200, payload |-> "none", last_update |-> NULL,
             db_size |-> 0]
NoSeen == [handler |-> "none", file |-> Absent, enabled |-> FALSE,
           query |-> "not_run", answer |-> NoAnswer]
NoResp == [success |-> "none", status |-> NotInitialized]

NoOut == [kind |-> "none"]
\* The database content is not looked into: no table content is chosen and
\* no query handler has answered.
QueryIdle ==
    /\ table = {}
    /\ analytics = {}
    /\ schema = "none"
    /\ out = NoOut
\* The page as the document and the script define it (lines 410-470 and
\* 477-481), before any of its functions has run.
Loading == [kind |-> "loading", rows |-> <<>>]
\* Line 377: <span id="sync-text">Loading...</span>
LoadingText == [kind |-> "loading", status |-> Status("", <<>>, -1),
                last_update |-> "", mb |-> 0]
\* Lines 383-406: the tiles show 0, $0 and N/A.
EmptyGrid == [kind |-> "document", total_active |-> 0, new_today |-> 0,
              reduced_today |-> 0, existing |-> 0, avg_price |-> 0,
              last_scrape |-> "N/A"]
\* Line 378: the button of the document.
ForceSyncButton == [disabled |-> FALSE, textContent |-> "Force Sync"]
PageLoaded ==
    /\ sync_text = LoadingText
    /\ stats_grid = EmptyGrid
    /\ btn = ForceSyncButton
    /\ alerted = "none"
    /\ reloading = {}
    /\ allProperties = <<>>
    /\ filteredProperties = <<>>
    /\ currentStatusFilter = "all"
    /\ sortColumn = "state"
    /\ sortDirection = "asc"
    /\ state_filter = ""
    /\ price_filter = ""
    /\ beds_filter = ""
    /\ search_input = <<>>
    /\ properties_tbody = Loading
    /\ result_count = 0
UiIdle == served = <<>> /\ PageLoaded
ViewIdle == QueryIdle /\ UiIdle

\* A step that sends no HTTP response.
NoOutput == seen' = NoSeen /\ resp' = NoResp

Init ==
    /\ phase = "start"
    /\ cred \in Credentials
    /\ enabled = FALSE            \* not assigned before __init__ runs
    /\ sync_status = NotInitialized
    /\ last_sync = None
    /\ file \in {Absent, FileOf(OldDb)}
    /\ clock = 1
    /\ scheduled = FALSE
    /\ pc = [t \in Threads |-> "idle"]
    /\ loc = [t \in Threads |-> NoLocals]
    /\ calls = {}
    /\ seen = NoSeen
    /\ resp = NoResp
    /\ ViewIdle

\* ------------------------------------------------- DropboxDatabaseSync.__init__
\* Faulty variant of ConstructEnabled: enabled is set as soon as the client
\* object exists, before the identity check.
ConstructEnabledBeforeCheck(c) == c \in {"check_ok", "check_raises"}

\* Lines 43-53: enabled is set to True only after users_get_current_account
\* has returned; both exceptions set it to False.
ConstructEnabled(c) == c = "check_ok"

Construct ==
    /\ phase = "start"
    /\ phase' = "constructed"
    /\ last_sync' = None
    /\ IF cred = "absent"
       THEN /\ enabled' = FALSE
            /\ sync_status' = NotInitialized
            /\ calls' = calls
       ELSE /\ enabled' = ConstructEnabled(cred)
            /\ calls' = IF cred = "client_raises" THEN calls
                        ELSE calls \cup {"users_get_current_account"}
            /\ IF cred = "check_ok"
               THEN sync_status' = Connected
               ELSE \E m \in ConnMsgs : sync_status' = ConnectionFailed(m)
    /\ NoOutput
    /\ UNCHANGED viewVars
    /\ UNCHANGED <<cred, file, clock, scheduled, pc, loc>>

\* ----------------------------------------- DropboxDatabaseSync.sync_database
Running(t) == pc[t] \notin {"idle", "ret"}

SetLoc(t, l) == loc' = [loc EXCEPT ![t] = l]
Goto(t, p) == pc' = [pc EXCEPT ![t] = p]

\* Leave sync_database: return True / return False, or an exception that
\* no handler of sync_database catches.  The locals of the frame are gone.
Finish(t, result, why) ==
    /\ Goto(t, "ret")
    /\ SetLoc(t, [NoLocals EXCEPT !.result = result, !.why = why,
                                  !.wrote = loc[t].wrote])

\* Faulty variant of SyncGuard: the enabled test at the top of
\* sync_database is missing.
SyncGuardMissing(en) == TRUE

\* Line 57: if not self.enabled: return False
SyncGuard(en) == en

Enter(t) ==
    /\ pc[t] = "idle"
    /\ IF SyncGuard(enabled)
       THEN /\ Goto(t, "download")
            /\ SetLoc(t, NoLocals)
       ELSE /\ Goto(t, "ret")
            /\ SetLoc(t, [NoLocals EXCEPT !.result = "false", !.why = "disabled"])

\* Line 65: metadata, response = self.dbx.files_download(dropbox_path)
Download(t) ==
    /\ pc[t] = "download"
    /\ calls' = calls \cup {"files_download"}
    /\ \/ \E v \in Versions :
            /\ Goto(t, "open")
            /\ SetLoc(t, [loc[t] EXCEPT !.content = v])
       \/ \E m \in ApiMsgs :
            /\ Goto(t, "api_error")
            /\ SetLoc(t, [loc[t] EXCEPT !.err = m])
       \/ \E m \in OtherMsgs :
            /\ Goto(t, "exception")
            /\ SetLoc(t, [loc[t] EXCEPT !.err = m])
    /\ NoOutput
    /\ UNCHANGED viewVars
    /\ UNCHANGED <<phase, cred, enabled, sync_status, last_sync, file, clock,
                   scheduled>>

\* Line 68: open(self.local_db, 'wb') creates the file or truncates it to
\* length 0; the descriptor starts at offset 0.
OpenTruncate(f) == FileOf(<<>>)

Open(t) ==
    /\ pc[t] = "open"
    /\ \/ /\ file' = OpenTruncate(file)
          /\ Goto(t, "write")
          /\ SetLoc(t, [loc[t] EXCEPT !.off = 0, !.wrote = TRUE])
       \/ \E m \in IoMsgs :
            /\ file' = file
            /\ Goto(t, "exception")
            /\ SetLoc(t, [loc[t] EXCEPT !.err = m])
    /\ NoOutput
    /\ UNCHANGED viewVars
    /\ UNCHANGED <<phase, cred, enabled, sync_status, last_sync, clock,
                   scheduled, calls>>

\* One write() of a chunk c at offset off of the writer's own descriptor: a
\* file shorter than off is extended with zero bytes first.
Pad(d, n) == d \o [i \in 1..(n - Len(d)) |-> Hole]
WriteAt(d, off, c) ==
    LET p == Pad(d, off)
    IN  SubSeq(p, 1, off) \o <<c>> \o SubSeq(p, off + 2, Len(p))

\* Line 69: f.write(response.content), chunk by chunk; leaving the with
\* block closes the file.
Write(t) ==
    /\ pc[t] = "write"
    /\ \/ /\ file' = FileOf(WriteAt(file.data, loc[t].off, loc[t].content))
          /\ Goto(t, IF loc[t].off + 1 = FileLen THEN "now" ELSE "write")
          /\ SetLoc(t, [loc[t] EXCEPT !.off = loc[t].off + 1])
       \/ \E m \in IoMsgs :
            /\ file' = file
            /\ Goto(t, "exception")
            /\ SetLoc(t, [loc[t] EXCEPT !.err = m])
    /\ NoOutput
    /\ UNCHANGED viewVars
    /\ UNCHANGED <<phase, cred, enabled, sync_status, last_sync, clock,
                   scheduled, calls>>

\* Line 71, right-hand side: datetime.now() returns the current time, which
\* is not earlier than the time any earlier call returned.
Now(t) ==
    /\ pc[t] = "now"
    /\ \E c \in clock..MaxClock :
          /\ clock' = c
          /\ SetLoc(t, [loc[t] EXCEPT !.now = c])
    /\ Goto(t, "set_last_sync")
    /\ NoOutput
    /\ UNCHANGED viewVars
    /\ UNCHANGED <<phase, cred, enabled, sync_status, last_sync, file,
                   scheduled, calls>>

\* Line 71, assignment: self.last_sync = <the value just computed>
SetLastSync(t) ==
    /\ pc[t] = "set_last_sync"
    /\ last_sync' = loc[t].now
    /\ Goto(t, "format")
    /\ NoOutput
    /\ UNCHANGED viewVars
    /\ UNCHANGED <<phase, cred, enabled, sync_status, file, clock, scheduled,
                   loc, calls>>

\* Line 72, right-hand side: f"Synced at {self.last_sync.strftime(...)}"
\* reads the attribute self.last_sync again.
Format(t) ==
    /\ pc[t] = "format"
    /\ Goto(t, "set_status")
    /\ SetLoc(t, [loc[t] EXCEPT !.fmt = Strftime(last_sync)])
    /\ NoOutput
    /\ UNCHANGED viewVars
    /\ UNCHANGED <<phase, cred, enabled, sync_status, last_sync, file, clock,
                   scheduled, calls>>

\* Line 72, assignment, and lines 75-78: os.path.getsize of the file just
\* written (nothing in the program removes it), log, return True.
SetSynced(t) ==
    /\ pc[t] = "set_status"
    /\ sync_status' = SyncedAt(loc[t].fmt)
    /\ Finish(t, "true", "synced")
    /\ NoOutput
    /\ UNCHANGED viewVars
    /\ UNCHANGED <<phase, cred, enabled, last_sync, file, clock, scheduled,
                   calls>>

\* Lines 80-86 and 95: except dropbox.exceptions.ApiError
ApiError(t) ==
    /\ pc[t] = "api_error"
    /\ sync_status' = ApiErrorStatus(loc[t].err)
    /\ IF IsInfix(<<"path", "not_found">>, loc[t].err)
       THEN /\ Goto(t, "bootstrap")
            /\ SetLoc(t, NoLocals)
       ELSE Finish(t, "false", "api")
    /\ NoOutput
    /\ UNCHANGED viewVars
    /\ UNCHANGED <<phase, cred, enabled, last_sync, file, clock, scheduled,
                   calls>>

\* Faulty variant of BootstrapResults: the bootstrap replaces whatever file
\* there is by the empty database (DROP/CREATE instead of CREATE TABLE IF
\* NOT EXISTS).
BootstrapOverwrites(f) ==
    {[ok |-> TRUE, file |-> FileOf(EmptyDb)], [ok |-> FALSE, file |-> f]}

\* Lines 88-92: sqlite3.connect(self.local_db), CREATE TABLE IF NOT EXISTS
\* properties (...), close.  The set of possible results [ok, file]:
\*  - no file or a file of length 0: sqlite creates the database with the
\*    six-column table, or fails (unable to open, disk full) leaving no
\*    database;
\*  - a complete database: the table exists, nothing is written;
\*  - a file that starts with zero bytes is not a database: sqlite raises;
\*  - a truncated database: the schema is read (nothing is written) or
\*    sqlite raises 'malformed'.
BootstrapResults(f) ==
    IF ~f.exists \/ f.data = <<>>
    THEN {[ok |-> TRUE, file |-> FileOf(EmptyDb)],
          [ok |-> FALSE, file |-> f],
          [ok |-> FALSE, file |-> FileOf(<<>>)]}
    ELSE IF f.data \in CompleteData
    THEN {[ok |-> TRUE, file |-> f]}
    ELSE IF f.data[1] = Hole
    THEN {[ok |-> FALSE, file |-> f]}
    ELSE {[ok |-> TRUE, file |-> f], [ok |-> FALSE, file |-> f]}

\* An exception raised inside the except clause is not caught by the
\* sibling 'except Exception' clause: it leaves sync_database.
Bootstrap(t) ==
    /\ pc[t] = "bootstrap"
    /\ \E r \in BootstrapResults(file) :
          /\ file' = r.file
          /\ IF r.ok
             THEN /\ Goto(t, "set_no_database")
                  /\ SetLoc(t, [loc[t] EXCEPT !.wrote = (r.file # file)])
             ELSE /\ Goto(t, "ret")
                  /\ SetLoc(t, [NoLocals EXCEPT !.result = "raised",
                                                !.why = "missing",
                                                !.wrote = (r.file # file)])
    /\ NoOutput
    /\ UNCHANGED viewVars
    /\ UNCHANGED <<phase, cred, enabled, sync_status, last_sync, clock,
                   scheduled, calls>>

\* Lines 93-95
SetNoDatabase(t) ==
    /\ pc[t] = "set_no_database"
    /\ sync_status' = NoDatabaseStatus
    /\ Finish(t, "false", "missing")
    /\ NoOutput
    /\ UNCHANGED viewVars
    /\ UNCHANGED <<phase, cred, enabled, last_sync, file, clock, scheduled,
                   calls>>

\* Faulty variant of Exception: the generic handler also switches the
\* component off.
ExceptionDisables(t) ==
    /\ pc[t] = "exception"
    /\ sync_status' = SyncErrorStatus(loc[t].err)
    /\ enabled' = FALSE
    /\ Finish(t, "false", "other")
    /\ NoOutput
    /\ UNCHANGED viewVars
    /\ UNCHANGED <<phase, cred, last_sync, file, clock, scheduled, calls>>

\* Lines 97-101: except Exception
Exception(t) ==
    /\ pc[t] = "exception"
    /\ sync_status' = SyncErrorStatus(loc[t].err)
    /\ Finish(t, "false", "other")
    /\ NoOutput
    /\ UNCHANGED viewVars
    /\ UNCHANGED <<phase, cred, enabled, last_sync, file, clock, scheduled,
                   calls>>

SyncStep(t) ==
    \/ Download(t)
    \/ Open(t)
    \/ Write(t)
    \/ Now(t)
    \/ SetLastSync(t)
    \/ Format(t)
    \/ SetSynced(t)
    \/ ApiError(t)
    \/ Bootstrap(t)
    \/ SetNoDatabase(t)
    \/ Exception(t)

\* ------------------------------------------------------ module initialisation
\* Faulty variant of InitialSync: the initial sync is started in a thread of
\* its own and the initialisation goes on without waiting for it.
InitialSyncInBackground ==
    /\ phase = "constructed"
    /\ enabled
    /\ phase' = "synced"
    /\ Enter("main")
    /\ NoOutput
    /\ UNCHANGED viewVars
    /\ UNCHANGED <<cred, enabled, sync_status, last_sync, file, clock,
                   scheduled, calls>>

\* Lines 122-123: if db_sync.enabled: db_sync.sync_database()
InitialSync ==
    /\ phase = "constructed"
    /\ enabled
    /\ phase' = "initial"
    /\ Enter("main")
    /\ NoOutput
    /\ UNCHANGED viewVars
    /\ UNCHANGED <<cred, enabled, sync_status, last_sync, file, clock,
                   scheduled, calls>>

SkipInitialSync ==
    /\ phase = "constructed"
    /\ ~enabled
    /\ phase' = "synced"
    /\ NoOutput
    /\ UNCHANGED viewVars
    /\ UNCHANGED <<cred, enabled, sync_status, last_sync, file, clock,
                   scheduled, pc, loc, calls>>

\* The initial sync returns; an exception that leaves it ends the import of
\* the module.
InitialSyncDone ==
    /\ phase = "initial"
    /\ pc["main"] = "ret"
    /\ phase' = IF loc["main"].result = "raised" THEN "crashed" ELSE "synced"
    /\ Goto("main", "idle")
    /\ SetLoc("main", NoLocals)
    /\ NoOutput
    /\ UNCHANGED viewVars
    /\ UNCHANGED <<cred, enabled, sync_status, last_sync, file, clock,
                   scheduled, calls>>

\* Lines 126-137: the job is added and the scheduler started only if enabled.
SetupScheduler ==
    /\ phase = "synced"
    /\ phase' = "serving"
    /\ scheduled' = enabled
    /\ NoOutput
    /\ UNCHANGED viewVars
    /\ UNCHANGED <<cred, enabled, sync_status, last_sync, file, clock, pc,
                   loc, calls>>

\* ------------------------------------------------------------ the 'db_sync' job
\* The interval trigger fires; the scheduler runs at most one instance of
\* the job at a time (a tick during a running instance is skipped).
TimerFires ==
    /\ phase = "serving"
    /\ scheduled
    /\ Enter("timer")
    /\ NoOutput
    /\ UNCHANGED viewVars
    /\ UNCHANGED <<phase, cred, enabled, sync_status, last_sync, file, clock,
                   scheduled, calls>>

\* Faulty variant of JobAfterRun: a run that does not return True removes
\* the job.
JobAfterRunDropsFailed(result) == result = "true"

\* Lines 127-134: the job has an interval trigger; whatever a run returns
\* or raises, the job stays registered.
JobAfterRun(result) == TRUE

\* The job returns; the scheduler logs an exception of the job and goes on.
TimerDone ==
    /\ pc["timer"] = "ret"
    /\ scheduled' = (scheduled /\ JobAfterRun(loc["timer"].result))
    /\ Goto("timer", "idle")
    /\ SetLoc("timer", NoLocals)
    /\ NoOutput
    /\ UNCHANGED viewVars
    /\ UNCHANGED <<phase, cred, enabled, sync_status, last_sync, file, clock,
                   calls>>

\* ------------------------------------------------------------- /api/force_sync
\* Line 840: success = db_sync.sync_database()
ForceSync ==
    /\ phase = "serving"
    /\ Enter("req")
    /\ NoOutput
    /\ UNCHANGED viewVars
    /\ UNCHANGED <<phase, cred, enabled, sync_status, last_sync, file, clock,
                   scheduled, calls>>

\* Lines 841-845: the response is built from the returned value and from
\* db_sync.sync_status as it is now; an exception out of sync_database
\* becomes the framework's error response.
ForceSyncRespond ==
    /\ pc["req"] = "ret"
    /\ resp' = IF loc["req"].result = "raised"
               THEN [success |-> "raised", status |-> sync_status]
               ELSE [success |-> loc["req"].result, status |-> sync_status]
    /\ Goto("req", "idle")
    /\ SetLoc("req", NoLocals)
    /\ seen' = NoSeen
    /\ UNCHANGED viewVars
    /\ UNCHANGED <<phase, cred, enabled, sync_status, last_sync, file, clock,
                   scheduled, calls>>

\* ------------------------------------------------------------ read handlers
\* What sqlite3.connect(path) followed by a SELECT leaves at the path: an
\* existing file is only read; a missing file is created with length 0.
AfterQuery(f) == IF f.exists THEN f ELSE FileOf(<<>>)

\* Faulty variant of HandlerFile: the handler connects without looking
\* whether the file exists.
HandlerFileNoGuard(f) == AfterQuery(f)

\* Lines 105-106, 738-739, 791-792: os.path.exists is tested first and the
\* handler returns before connecting when there is no file.
HandlerFile(f) == IF ~f.exists THEN f ELSE AfterQuery(f)

\* The possible results of the SELECT of handler h on an existing file:
\*  - a file of length 0 is a database without tables: 'no such table';
\*  - the bootstrapped database has the six columns MAX(scrape_date) and the
\*    statistics need, but neither bedrooms, bathrooms nor the
\*    property_analytics table the listing selects from;
\*  - a complete database of the scraper answers every query;
\*  - a file that starts with zero bytes is not a database;
\*  - a truncated database answers or raises 'malformed'.
QueryResults(h, f) ==
    IF f.data = <<>> THEN {"failed"}
    ELSE IF f.data = EmptyDb
    THEN IF h = "get_properties" THEN {"failed"} ELSE {"ok"}
    ELSE IF f.data \in CompleteData THEN {"ok"}
    ELSE IF f.data[1] = Hole THEN {"failed"}
    ELSE {"ok", "failed"}

\* Faulty variant of Respond: the query is not wrapped in try/except, so a
\* failing query becomes the framework's error response.
RespondUncaught(h, f, q) ==
    [http |-> IF q = "failed" THEN 500 ELSE 200,
     payload |-> IF q = "failed" THEN "Internal Server Error"
                 ELSE IF h = "sync_status" THEN "status"
                 ELSE IF h = "dashboard_stats" THEN "stats"
                 ELSE "properties",
     last_update |-> IF q = "ok" /\ f.data # EmptyDb THEN "max" ELSE NULL,
     db_size |-> IF f.exists THEN Len(f.data) ELSE 0]

\* The answer of handler h for file f and query result q ("not_run" when
\* there is no file).  Lines 103-116 and 727-733: last_update is None without
\* a file and on any exception, else MAX(scrape_date) (NULL for a table
\* without rows); db_size is the size of the file, 0 without a file.
\* Lines 738-739, 784-786 and 791-792, 832-835: the payloads without a file
\* and on an exception.  Every path ends in jsonify(...), status 200.
Respond(h, f, q) ==
    [http |-> 200,
     payload |->
        IF h = "sync_status" THEN "status"
        ELSE IF h = "dashboard_stats"
        THEN (IF ~f.exists THEN "error: No database found"
              ELSE IF q = "failed" THEN "error: message"
              ELSE "stats")
        ELSE (IF ~f.exists THEN "properties: []"
              ELSE IF q = "failed" THEN "properties: [], error: message"
              ELSE "properties"),
     last_update |-> IF q = "ok" /\ f.data # EmptyDb THEN "max" ELSE NULL,
     db_size |-> IF f.exists THEN Len(f.data) ELSE 0]

\* /api/sync_status, /api/dashboard_stats, /api/properties: each opens the
\* file at LOCAL_DB_PATH and queries it.  Requests are handled one at a
\* time, so a read handler runs while no /api/force_sync is being handled;
\* the timer thread runs independently.
ReadHandler(h) ==
    /\ phase = "serving"
    /\ pc["req"] = "idle"
    /\ file' = HandlerFile(file)
    /\ \E q \in (IF file.exists THEN QueryResults(h, file) ELSE {"not_run"}) :
          seen' = [handler |-> h, file |-> file, enabled |-> enabled,
                   query |-> q, answer |-> Respond(h, file, q)]
    /\ resp' = NoResp
    /\ UNCHANGED viewVars
    /\ UNCHANGED <<phase, cred, enabled, sync_status, last_sync, clock,
                   scheduled, pc, loc, calls>>

\* GET / returns the constant document (lines 139-722), GET /health the
\* constant payload with the time (lines 847-850); neither looks at the
\* database or at db_sync.
StaticHandlers == {"index", "health"}
StaticHandler(h) ==
    /\ phase = "serving"
    /\ pc["req"] = "idle"
    /\ seen' = [NoSeen EXCEPT !.handler = h, !.enabled = enabled,
                              !.answer = [NoAnswer EXCEPT !.payload = h]]
    /\ resp' = NoResp
    /\ UNCHANGED viewVars
    /\ UNCHANGED <<phase, cred, enabled, sync_status, last_sync, file, clock,
                   scheduled, pc, loc, calls>>

Next ==
    \/ Construct
    \/ InitialSync
    \/ SkipInitialSync
    \/ InitialSyncDone
    \/ SetupScheduler
    \/ TimerFires
    \/ TimerDone
    \/ ForceSync
    \/ ForceSyncRespond
    \/ \E t \in Threads : SyncStep(t)
    \/ \E h \in ReadHandlers : ReadHandler(h)
    \/ \E h \in StaticHandlers : StaticHandler(h)

Spec == Init /\ [][Next]_vars

\* The process without requests: the module initialisation and the job of
\* the scheduler.  (/api/force_sync runs the same sync_database on the
\* request thread; its interleavings with the job are part of Spec.)
TimerNext ==
    \/ Construct
    \/ InitialSync
    \/ SkipInitialSync
    \/ InitialSyncDone
    \/ SetupScheduler
    \/ TimerFires
    \/ TimerDone
    \/ SyncStep("main")
    \/ SyncStep("timer")

\* The import of the module runs to its end; the scheduler fires the
\* interval trigger again and again and its thread runs the job to its end.
LiveSpec ==
    /\ Init
    /\ [][TimerNext]_vars
    /\ WF_vars(SyncStep("main") \/ InitialSyncDone \/ SetupScheduler)
    /\ WF_vars(TimerFires \/ SyncStep("timer") \/ TimerDone)

\* ------------------------------------------------------------ the SQL queries
\* The queries of /api/dashboard_stats and /api/properties as functions of
\* the content of the database.  The tables are sets of rows (the queries
\* use COUNT(DISTINCT ...) and SELECT DISTINCT); address, bedrooms and
\* bathrooms are carried through unchanged and left out.
Cases == {"101-1", "101-2"}
\* Dates and state codes in ascending order of the text comparison.
Dates == <<"2024-01-01", "2024-01-02">>
States == <<"AL", "TX">>
Prices == {1, 2}
Statuses == {NULL, "New Inventory", "Price Reduced", "Removed", "Active"}
Range(q) == {q[i] : i \in 1..Len(q)}
Rank(q, v) == CHOOSE i \in 1..Len(q) : q[i] = v

Rows == [case_number : Cases, scrape_date : Range(Dates),
         state : Range(States), price : Prices, status : Statuses]
RECURSIVE Tables(_)
Tables(n) ==
    IF n = 0 THEN {{}}
    ELSE LET P == Tables(n - 1) IN P \cup {t \cup {r} : t \in P, r \in Rows}
\* property_analytics: no row for the second case; one row for the first,
\* or two rows, one of them without total_days_on_market.
AnalyticsTables ==
    {{[case_number |-> "101-1", total_days_on_market |-> 3]},
     {[case_number |-> "101-1", total_days_on_market |-> NullNum],
      [case_number |-> "101-1", total_days_on_market |-> 3]}}

\* a = b and a != b are true; with a NULL operand they are NULL, which a
\* WHERE or a CASE WHEN treats as not true.
SqlEq(a, b) == a # NULL /\ b # NULL /\ a = b
SqlNe(a, b) == a # NULL /\ b # NULL /\ a # b
\* CASE WHEN c THEN v END
CaseWhen(c, v) == IF c THEN v ELSE NULL
\* COUNT(DISTINCT x): the NULLs are not counted.
CountDistinct(S) == Cardinality(S \ {NULL})
\* (SELECT MAX(scrape_date) FROM properties): NULL for a table without rows.
MaxScrapeDate(t) ==
    IF t = {} THEN NULL
    ELSE CHOOSE d \in {r.scrape_date : r \in t} :
            \A r \in t : Rank(Dates, r.scrape_date) <= Rank(Dates, d)
\* WHERE scrape_date = (SELECT MAX(scrape_date) FROM properties)
Snapshot(t) == {r \in t : SqlEq(r.scrape_date, MaxScrapeDate(t))}

RECURSIVE SumPrice(_)
SumPrice(S) ==
    IF S = {} THEN 0
    ELSE LET r == CHOOSE r \in S : TRUE IN r.price + SumPrice(S \ {r})
\* A rational number sum / n; zero is 0 / 1.
Ratio(sum, n) == [sum |-> sum, n |-> n]
Zero == Ratio(0, 1)
\* AVG(CASE WHEN status != 'Removed' THEN price END) followed by
\* row[3] or 0: AVG of no value is NULL.
AvgPrice(S) ==
    LET A == {r \in S : SqlNe(r.status, "Removed")}
    IN  IF A = {} THEN Zero ELSE Ratio(SumPrice(A), Cardinality(A))

\* Faulty variant of Or: the value of the row is passed on as it is.
OrKeep(x, d, falsy) == x

\* Python's x or d: d when x is falsy (None, 0, '').
Or(x, d, falsy) == IF x \in falsy THEN d ELSE x

\* Lines 749-770: the aggregate query (one row also for no input row) and
\* the defaults.
Stats(t) ==
    LET S == Snapshot(t)
    IN  [kind |-> "stats",
         error |-> FALSE,
         total_active |->
            Or(CountDistinct({CaseWhen(SqlNe(r.status, "Removed"),
                                       r.case_number) : r \in S}), 0, {0}),
         new_today |->
            Or(CountDistinct({CaseWhen(SqlEq(r.status, "New Inventory"),
                                       r.case_number) : r \in S}), 0, {0}),
         reduced_today |->
            Or(CountDistinct({CaseWhen(SqlEq(r.status, "Price Reduced"),
                                       r.case_number) : r \in S}), 0, {0}),
         avg_price |-> AvgPrice(S),
         states |-> Or(CountDistinct({r.state : r \in S}), 0, {0}),
         last_scrape |-> Or(MaxScrapeDate(S), "Never", {NULL, ""})]

\* Faulty variant of Listed: the Removed rows of the snapshot are listed too.
ListedWithRemoved(t) == Snapshot(t)

\* Lines 815-816: the rows of the snapshot whose status is not 'Removed'.
Listed(t) == {r \in Snapshot(t) : SqlNe(r.status, "Removed")}

\* Lines 806-812: CAST(CASE WHEN pa.total_days_on_market IS NOT NULL THEN
\* pa.total_days_on_market ELSE 0 END AS INTEGER)
DaysOnMarket(d) == IF d # NullNum THEN d ELSE 0
ListRow(r, d) ==
    [case_number |-> r.case_number, state |-> r.state, price |-> r.price,
     status |-> r.status, days_on_market |-> d]
\* Lines 798-816: SELECT DISTINCT ... FROM properties p LEFT JOIN
\* property_analytics pa ON p.case_number = pa.case_number WHERE ...
\* A property without analytics row is joined with NULLs.
Joined(t, an) ==
    UNION {LET M == {a \in an : a.case_number = r.case_number}
           IN  IF M = {} THEN {ListRow(r, DaysOnMarket(NullNum))}
               ELSE {ListRow(r, DaysOnMarket(a.total_days_on_market)) : a \in M}
           : r \in Listed(t)}

\* ORDER BY p.state, p.price: x may come before y.
Before(x, y) ==
    \/ Rank(States, x.state) < Rank(States, y.state)
    \/ x.state = y.state /\ x.price <= y.price
\* The orders in which ORDER BY may return the rows of S (rows with equal
\* keys come in any order).
RECURSIVE OrderBy(_)
OrderBy(S) ==
    IF S = {} THEN {<<>>}
    ELSE UNION {{<<m>> \o q : q \in OrderBy(S \ {m})} :
                   m \in {x \in S : \A y \in S : Before(x, y)}}

\* Faulty variant of Limit: every row is returned.
LimitOff(q) == q

\* LIMIT 1000
Limit(q) == SubSeq(q, 1, IF Len(q) < PageLimit THEN Len(q) ELSE PageLimit)

\* A process that serves requests and does not sync, with local file f.
Quiet(f) ==
    /\ phase = "serving"
    /\ cred = "absent"
    /\ enabled = FALSE
    /\ sync_status = NotInitialized
    /\ last_sync = None
    /\ file = f
    /\ clock = 1
    /\ scheduled = FALSE
    /\ pc = [t \in Threads |-> "idle"]
    /\ loc = [t \in Threads |-> NoLocals]
    /\ calls = {}
    /\ seen = NoSeen
    /\ resp = NoResp

\* The database is either the bootstrapped one (lines 88-91: the properties
\* table with six columns, no row, no property_analytics table) or one
\* written by the scraper, with any content of the two tables.
QueryInit ==
    /\ out = NoOut
    /\ UiIdle
    /\ \/ /\ schema = "bootstrap"
          /\ table = {}
          /\ analytics = {}
          /\ Quiet(FileOf(EmptyDb))
       \/ /\ schema = "full"
          /\ table \in Tables(MaxRows)
          /\ analytics \in AnalyticsTables
          /\ Quiet(FileOf(OldDb))

\* GET /api/dashboard_stats on an existing file (lines 741-782).
DashboardStats ==
    /\ out' = Stats(table)
    /\ UNCHANGED <<table, analytics, schema, uiVars>>
    /\ UNCHANGED syncVars

\* GET /api/properties on an existing file (lines 794-835): the query
\* raises on the bootstrapped database (no column bedrooms).
GetProperties ==
    /\ IF schema = "bootstrap"
       THEN out' = [kind |-> "properties", error |-> TRUE, properties |-> <<>>]
       ELSE \E q \in OrderBy(Joined(table, analytics)) :
               out' = [kind |-> "properties", error |-> FALSE,
                       properties |-> Limit(q)]
    /\ UNCHANGED <<table, analytics, schema, uiVars>>
    /\ UNCHANGED syncVars

QueryNext == DashboardStats \/ GetProperties
QuerySpec == QueryInit /\ [][QueryNext]_vars

\* ----------------------------------------------------------- the dashboard page
\* The script of the page (lines 476-720) on the list of properties it has
\* fetched.  Texts are sequences of characters; address is <<>> when it is
\* null or empty (the script reads it only as address || '').
Prop(c, a, st, pr, b, d, s) ==
    [case_number |-> c, address |-> a, state |-> st, price |-> pr,
     bedrooms |-> b, days_on_market |-> d, status |-> s]
\* Rows /api/properties can answer: price and bedrooms may be null,
\* days_on_market is a number, status is neither null nor 'Removed'.
Props ==
    {Prop(<<"A", "1">>, <<"B">>, "AL", NullNum, 3, 0, "New Inventory"),
     Prop(<<"A", "2">>, <<>>, "TX", 50000, NullNum, 3, "Price Reduced"),
     Prop(<<"C", "1">>, <<"a", "b">>, "AL", 60000, 5, 7, "Active")}
\* The lists of at most n different rows.
RECURSIVE Lists(_)
Lists(n) ==
    IF n = 0 THEN {<<>>}
    ELSE LET P == Lists(n - 1)
         IN  P \cup UNION {{Append(q, x) : x \in Props \ Range(q)} : q \in P}

\* The tiles (lines 383-395) and the options of the controls that are used
\* (lines 410-442); what is typed into the search box.
Tiles == {"all", "New Inventory", "Price Reduced", "Existing"}
StateOptions == {"", "AL", "TX"}
PriceOptions == {"", "0-50000", "50000-100000"}
BedsOptions == {"", "3", "4"}
SearchTexts == {<<>>, <<"A">>, <<"1", " ", "B">>}
\* The headers that are clicked (lines 462-465).
SortColumns == {"state", "price", "bedrooms", "days_on_market"}
NumericColumns == {"price", "bedrooms", "days_on_market"}

\* priceFilter.split('-').map(Number)
Bucket(v) ==
    CASE v = "0-50000" -> <<0, 50000>>
      [] v = "50000-100000" -> <<50000, 100000>>
      [] v = "100000-150000" -> <<100000, 150000>>
      [] v = "150000-200000" -> <<150000, 200000>>
      [] v = "200000-300000" -> <<200000, 300000>>
      [] v = "300000-999999999" -> <<300000, 999999999>>
\* The number a loose comparison turns the text of a beds option into.
NumberOf(v) ==
    CASE v = "1" -> 1 [] v = "2" -> 2 [] v = "3" -> 3 [] v = "4" -> 4

\* toLowerCase() on the characters used.
LowerChar(c) ==
    CASE c = "A" -> "a" [] c = "B" -> "b" [] c = "C" -> "c" [] OTHER -> c
ToLowerCase(q) == [i \in 1..Len(q) |-> LowerChar(q[i])]
\* text.includes(term)
Includes(text, term) ==
    \E i \in 0..(Len(text) - Len(term)) :
        \A j \in 1..Len(term) : text[i + j] = term[j]

\* Faulty variant of OrZero: a null stays what it is.
OrZeroOff(x) == x

\* x || 0 and Number(x) || 0 on a number or null.
OrZero(x) == IF x = NullNum THEN 0 ELSE x

\* Lines 558-605: the function given to allProperties.filter, for the tile
\* and the values of the four controls.
Passes(prop, tile, sf, pf, bf, si) ==
    LET searchTerm == ToLowerCase(si)
        price == OrZero(prop.price)
        beds == OrZero(prop.bedrooms)
        searchableText ==
            ToLowerCase(prop.case_number \o <<" ">> \o prop.address)
    IN  /\ ~ /\ tile # "all"
             /\ IF tile = "Existing"
                THEN prop.status = "New Inventory" \/ prop.status = "Price Reduced"
                ELSE prop.status # tile
        /\ ~ (sf # "" /\ prop.state # sf)
        /\ ~ (pf # "" /\ (price < Bucket(pf)[1] \/ price > Bucket(pf)[2]))
        /\ ~ /\ bf # ""
             /\ IF bf = "4" THEN beds < 4 ELSE beds # NumberOf(bf)
        /\ ~ (searchTerm # <<>> /\ ~Includes(searchableText, searchTerm))

\* allProperties.filter(...) (line 557)
Filter(all, tile, sf, pf, bf, si) ==
    LET Test(prop) == Passes(prop, tile, sf, pf, bf, si)
    IN  SelectSeq(all, Test)

\* Lines 653-673: renderProperties.
Render(fp) ==
    /\ result_count' = Len(fp)
    /\ properties_tbody' = IF Len(fp) = 0 THEN [kind |-> "none", rows |-> <<>>]
                           ELSE [kind |-> "rows", rows |-> fp]

\* Lines 551-609: applyFilters with the tile and the control values given.
ApplyFilters(all, tile, sf, pf, bf, si) ==
    /\ filteredProperties' = Filter(all, tile, sf, pf, bf, si)
    /\ Render(filteredProperties')

\* What a fetch of the page ends in: a JSON answer, or a failure (no
\* connection, or a body that is not JSON) that the await raises.
Answer(data) == [ok |-> TRUE, data |-> data]
FetchFailed == [ok |-> FALSE, data |-> <<>>]
\* The loads of the page: lines 484, 497, 518.
Loads == {"loadSyncStatus", "loadStats", "loadProperties"}
\* A load has been answered: it is one that forceSync has called, or one of
\* the page load or of the interval (lines 709-718).  It raises no alert.
Loaded(load) ==
    /\ reloading' \in {reloading, reloading \ {load}}
    /\ alerted' = "none"
    /\ UNCHANGED btn

\* Lines 518-530: loadProperties, on page load, every 5 minutes and after a
\* forced sync.  fetch answers the list or fails.
PropertiesAnswers == {Answer(served), FetchFailed}
LoadProperties(answer) ==
    /\ IF answer.ok
       THEN /\ allProperties' = answer.data
            /\ ApplyFilters(allProperties', currentStatusFilter, state_filter,
                            price_filter, beds_filter, search_input)
       ELSE /\ properties_tbody' = [kind |-> "error", rows |-> <<>>]
            /\ UNCHANGED <<allProperties, filteredProperties, result_count>>
    /\ Loaded("loadProperties")
    /\ UNCHANGED <<served, currentStatusFilter, sortColumn, sortDirection,
                   state_filter, price_filter, beds_filter, search_input,
                   sync_text, stats_grid>>
    /\ UNCHANGED <<syncVars, queryVars>>

\* Lines 533-548: a click on a tile.
FilterByStatus(status) ==
    /\ currentStatusFilter' = status
    /\ ApplyFilters(allProperties, status, state_filter, price_filter,
                    beds_filter, search_input)
    /\ UNCHANGED <<served, allProperties, sortColumn, sortDirection,
                   state_filter, price_filter, beds_filter, search_input>>
    /\ UNCHANGED <<syncVars, queryVars, pageVars>>

\* Lines 410, 426, 436: onchange of a select; line 445: onkeyup of the
\* search box.
ChangeState(v) ==
    /\ state_filter' = v
    /\ ApplyFilters(allProperties, currentStatusFilter, v, price_filter,
                    beds_filter, search_input)
    /\ UNCHANGED <<served, allProperties, currentStatusFilter, sortColumn,
                   sortDirection, price_filter, beds_filter, search_input>>
    /\ UNCHANGED <<syncVars, queryVars, pageVars>>
ChangePrice(v) ==
    /\ price_filter' = v
    /\ ApplyFilters(allProperties, currentStatusFilter, state_filter, v,
                    beds_filter, search_input)
    /\ UNCHANGED <<served, allProperties, currentStatusFilter, sortColumn,
                   sortDirection, state_filter, beds_filter, search_input>>
    /\ UNCHANGED <<syncVars, queryVars, pageVars>>
ChangeBeds(v) ==
    /\ beds_filter' = v
    /\ ApplyFilters(allProperties, currentStatusFilter, state_filter,
                    price_filter, v, search_input)
    /\ UNCHANGED <<served, allProperties, currentStatusFilter, sortColumn,
                   sortDirection, state_filter, price_filter, search_input>>
    /\ UNCHANGED <<syncVars, queryVars, pageVars>>
Search(v) ==
    /\ search_input' = v
    /\ ApplyFilters(allProperties, currentStatusFilter, state_filter,
                    price_filter, beds_filter, v)
    /\ UNCHANGED <<served, allProperties, currentStatusFilter, sortColumn,
                   sortDirection, state_filter, price_filter, beds_filter>>
    /\ UNCHANGED <<syncVars, queryVars, pageVars>>

\* Faulty variant of ClearAllFilters: the tile selection is kept.
ClearAllFiltersKeepsTile ==
    /\ state_filter' = ""
    /\ price_filter' = ""
    /\ beds_filter' = ""
    /\ search_input' = <<>>
    /\ currentStatusFilter' = currentStatusFilter
    /\ ApplyFilters(allProperties, currentStatusFilter, "", "", "", <<>>)
    /\ UNCHANGED <<served, allProperties, sortColumn, sortDirection>>
    /\ UNCHANGED <<syncVars, queryVars, pageVars>>

\* Lines 612-624: clearAllFilters.
ClearAllFilters ==
    /\ state_filter' = ""
    /\ price_filter' = ""
    /\ beds_filter' = ""
    /\ search_input' = <<>>
    /\ currentStatusFilter' = "all"
    /\ ApplyFilters(allProperties, "all", "", "", "", <<>>)
    /\ UNCHANGED <<served, allProperties, sortColumn, sortDirection>>
    /\ UNCHANGED <<syncVars, queryVars, pageVars>>

\* Faulty variant of Toggle: a click on the current column sorts ascending
\* again.
ToggleOff(d) == "asc"

\* Line 629
Toggle(d) == IF d = "asc" THEN "desc" ELSE "asc"

\* Lines 636-642: the value compared for a row.
SortKey(column, a) ==
    IF column \in NumericColumns THEN OrZero(a[column])
    ELSE Rank(States, a[column])
\* Lines 644-646: the comparator.
Compare(column, direction, a, b) ==
    IF SortKey(column, a) < SortKey(column, b)
    THEN (IF direction = "asc" THEN -1 ELSE 1)
    ELSE IF SortKey(column, a) > SortKey(column, b)
    THEN (IF direction = "asc" THEN 1 ELSE -1)
    ELSE 0
\* Array.prototype.sort: a stable sort.  x is put behind the last row that
\* does not compare greater than x.
RECURSIVE InsertSorted(_, _, _, _)
InsertSorted(q, x, column, direction) ==
    IF q = <<>> THEN <<x>>
    ELSE IF Compare(column, direction, q[Len(q)], x) <= 0
    THEN Append(q, x)
    ELSE Append(InsertSorted(SubSeq(q, 1, Len(q) - 1), x, column, direction),
                q[Len(q)])
RECURSIVE Sort(_, _, _)
Sort(q, column, direction) ==
    IF q = <<>> THEN <<>>
    ELSE InsertSorted(Sort(SubSeq(q, 1, Len(q) - 1), column, direction),
                      q[Len(q)], column, direction)

\* Lines 627-650: sortTable, a click on a column header.
SortTable(column) ==
    /\ IF sortColumn = column
       THEN sortDirection' = Toggle(sortDirection) /\ sortColumn' = sortColumn
       ELSE sortColumn' = column /\ sortDirection' = "asc"
    /\ filteredProperties' = Sort(filteredProperties, column, sortDirection')
    /\ Render(filteredProperties')
    /\ UNCHANGED <<served, allProperties, currentStatusFilter, state_filter,
                   price_filter, beds_filter, search_input>>
    /\ UNCHANGED <<syncVars, queryVars, pageVars>>

\* Line 817: /api/properties answers its rows ORDER BY state, price; a
\* null price comes first.
ServerOrdered(q) ==
    \A i, j \in 1..Len(q) :
        i < j => \/ Rank(States, q[i].state) < Rank(States, q[j].state)
                 \/ /\ q[i].state = q[j].state
                    /\ q[i].price <= q[j].price

\* The page is opened in a browser; /api/properties answers the same list
\* during the visit.
UiInit ==
    /\ served \in {q \in Lists(MaxProps) : ServerOrdered(q)}
    /\ PageLoaded
    /\ QueryIdle
    /\ Quiet(FileOf(OldDb))

UiNext ==
    \/ \E answer \in PropertiesAnswers : LoadProperties(answer)
    \/ \E status \in Tiles : FilterByStatus(status)
    \/ \E v \in StateOptions : ChangeState(v)
    \/ \E v \in PriceOptions : ChangePrice(v)
    \/ \E v \in BedsOptions : ChangeBeds(v)
    \/ \E v \in SearchTexts : Search(v)
    \/ ClearAllFilters
    \/ \E column \in SortColumns : SortTable(column)
UiSpec == UiInit /\ [][UiNext]_vars

\* ------------------------------------------- status line, tiles, Force Sync
\* 1024 * 1024 of line 490.
MiB == 1048576
\* (db_size / 1024 / 1024).toFixed(2), in hundredths.
ToFixed2(db_size) == (db_size * 200 + MiB) \div (2 * MiB)
\* Math.round of a number given in tenths.
Round(tenths) == (tenths + 5) \div 10

\* What /api/sync_status answers (lines 727-733).
StatusAnswers ==
    {Answer([status |-> SyncedAt(1), last_update |-> "2024-01-02",
             db_size |-> 5767168]),
     Answer([status |-> NotInitialized, last_update |-> NULL, db_size |-> 0]),
     FetchFailed}
\* Lines 484-494: loadSyncStatus.
LoadSyncStatus(answer) ==
    /\ sync_text' =
          IF answer.ok
          THEN [kind |-> "status",
                status |-> answer.data.status,
                last_update |-> Or(answer.data.last_update, "Never",
                                   {NULL, ""}),
                mb |-> ToFixed2(answer.data.db_size)]
          ELSE [kind |-> "error", status |-> Status("", <<>>, -1),
                last_update |-> "", mb |-> 0]
    /\ Loaded("loadSyncStatus")
    /\ UNCHANGED <<served, allProperties, filteredProperties,
                   currentStatusFilter, sortColumn, sortDirection,
                   state_filter, price_filter, beds_filter, search_input,
                   properties_tbody, result_count, stats_grid>>
    /\ UNCHANGED <<syncVars, queryVars>>

\* What /api/dashboard_stats answers (lines 738-739, 772-786): the
\* statistics, avg_price in tenths, or a payload with 'error' and none of
\* the other members.
StatsAnswers ==
    {Answer([total_active |-> 3, new_today |-> 1, reduced_today |-> 1,
             avg_price |-> 550005, last_scrape |-> "2024-01-02"]),
     Answer([total_active |-> 1, new_today |-> 1, reduced_today |-> 1,
             avg_price |-> 500000, last_scrape |-> "2024-01-02"]),
     Answer([total_active |-> NullNum, new_today |-> NullNum,
             reduced_today |-> NullNum, avg_price |-> NullNum,
             last_scrape |-> NULL]),
     FetchFailed}
\* Math.max(0, x)
Max0(x) == IF x < 0 THEN 0 ELSE x
\* Lines 497-515: loadStats.  The catch branch writes to the console only.
LoadStats(answer) ==
    /\ stats_grid' =
          IF answer.ok
          THEN LET data == answer.data
               IN  [kind |-> "stats",
                    total_active |-> OrZero(data.total_active),
                    new_today |-> OrZero(data.new_today),
                    reduced_today |-> OrZero(data.reduced_today),
                    avg_price |-> Round(OrZero(data.avg_price)),
                    last_scrape |-> Or(data.last_scrape, "N/A", {NULL, ""}),
                    existing |-> Max0(OrZero(data.total_active)
                                        - OrZero(data.new_today)
                                        - OrZero(data.reduced_today))]
          ELSE stats_grid
    /\ Loaded("loadStats")
    /\ UNCHANGED <<served, allProperties, filteredProperties,
                   currentStatusFilter, sortColumn, sortDirection,
                   state_filter, price_filter, beds_filter, search_input,
                   properties_tbody, result_count, sync_text>>
    /\ UNCHANGED <<syncVars, queryVars>>

\* Lines 683-688: a click on the button; forceSync runs up to the await of
\* its fetch.  A disabled button takes no click.
ClickForceSync ==
    /\ ~btn.disabled
    /\ btn' = [disabled |-> TRUE, textContent |-> "Syncing..."]
    /\ alerted' = "none"
    /\ UNCHANGED <<served, allProperties, filteredProperties,
                   currentStatusFilter, sortColumn, sortDirection,
                   state_filter, price_filter, beds_filter, search_input,
                   properties_tbody, result_count, sync_text, stats_grid,
                   reloading>>
    /\ UNCHANGED <<syncVars, queryVars>>

\* What /api/force_sync answers (lines 841-845): success true or false, or
\* the fetch fails.
ForceSyncAnswers == {Answer([success |-> TRUE]), Answer([success |-> FALSE]),
                     FetchFailed}
\* Lines 689-705: forceSync goes on when its fetch has ended.  The three
\* loads are called on success only; each runs up to the await of its own
\* fetch.
ForceSyncAnswered(answer) ==
    /\ btn.disabled
    /\ IF answer.ok
       THEN IF answer.data.success
            THEN /\ alerted' = "Sync completed successfully!"
                 /\ reloading' = Loads
            ELSE /\ alerted' = "Sync failed. Check logs."
                 /\ UNCHANGED reloading
       ELSE /\ alerted' = "Error during sync: "
            /\ UNCHANGED reloading
    /\ btn' = [disabled |-> FALSE, textContent |-> "Force Sync"]
    /\ UNCHANGED <<served, allProperties, filteredProperties,
                   currentStatusFilter, sortColumn, sortDirection,
                   state_filter, price_filter, beds_filter, search_input,
                   properties_tbody, result_count, sync_text, stats_grid>>
    /\ UNCHANGED <<syncVars, queryVars>>

\* The page is opened and left alone but for the button: the loads of the
\* page load, of the interval and of forceSync are answered.
PageInit == UiInit
PageNext ==
    \/ \E answer \in StatusAnswers : LoadSyncStatus(answer)
    \/ \E answer \in StatsAnswers : LoadStats(answer)
    \/ \E answer \in PropertiesAnswers : LoadProperties(answer)
    \/ ClickForceSync
    \/ \E answer \in ForceSyncAnswers : ForceSyncAnswered(answer)
PageSpec == PageInit /\ [][PageNext]_vars

\* ================================================================== claims

\* The download-and-overwrite section of sync_database: lines 65-69.
InSection(t) == pc[t] \in {"download", "open", "write"}
\* The step with which the invocation of thread t leaves sync_database.
Returns(t) == pc[t] # "ret" /\ pc'[t] = "ret"

\* C1: a read handler that runs while a Sync is writing the local file
\* finds a complete file: the previous content or the new content, never a
\* partially written one.
C1_ReadersSeeCompleteFile ==
    (seen.handler # "none" /\ \E t \in Threads : pc[t] = "write")
        => IsComplete(seen.file)

\* C2: at most one invocation of Sync is inside the download-and-overwrite
\* section at any time.
C2_MutualExclusion == Cardinality({t \in Threads : InSection(t)}) <= 1

\* C3: a Sync invocation that fails for a reason other than the remote file
\* being missing has not changed the local file.
C3_FailureLeavesFile ==
    \A t \in Threads :
        (pc[t] = "ret" /\ loc[t].why \in {"api", "other"}) => ~loc[t].wrote

\* C4: no failure leaves sync_database as an exception: every invocation
\* returns a boolean, and /api/force_sync always answers with its JSON body.
C4_NeverRaises ==
    /\ \A t \in Threads : loc[t].result # "raised"
    /\ resp.success # "raised"

\* C5: right after construction exactly one of the three outcomes holds,
\* last_sync is absent and enabled is true exactly when the identity check
\* succeeded.
C5_ConstructOutcomes ==
    phase = "constructed" =>
        /\ last_sync = None
        /\ enabled <=> cred = "check_ok"
        /\ \/ /\ cred = "absent"
              /\ ~enabled
              /\ sync_status = NotInitialized
              /\ calls = {}
           \/ /\ cred = "check_ok"
              /\ enabled
              /\ sync_status = Connected
              /\ calls = {"users_get_current_account"}
           \/ /\ cred \in {"client_raises", "check_raises"}
              /\ ~enabled
              /\ \E m \in ConnMsgs : sync_status = ConnectionFailed(m)
C5_Witness ==
    /\ phase = "constructed"
    /\ cred = "check_raises"
    /\ ~enabled
    /\ sync_status.text = "Connection failed: "
    /\ calls = {"users_get_current_account"}

\* C6: a disabled component stays as construction left it: no download is
\* ever requested, no job is scheduled, every Sync returns failure, and no
\* step changes the status, last_sync or the local file.
C6_DisabledIsTerminal ==
    [][(phase # "start" /\ ~enabled) =>
          /\ "files_download" \notin calls'
          /\ ~scheduled'
          /\ \A t \in Threads : ~Running(t)'
          /\ \A t \in Threads : pc'[t] = "ret" => loc'[t].result = "false"
          /\ resp'.success \in {"none", "false"}
          /\ sync_status' = sync_status
          /\ last_sync' = last_sync
          /\ file' = file]_vars
C6_Witness ==
    /\ ~enabled
    /\ cred = "check_raises"
    /\ resp.success = "false"
    /\ resp.status.text = "Connection failed: "
    /\ file = FileOf(OldDb)

\* C7: when a Sync invocation returns success, the local file holds the
\* content it downloaded, last_sync is the time it took, and the status is
\* 'Synced at' that same last_sync formatted to the second.
C7_SuccessPostcondition ==
    [][\A t \in Threads :
          (Returns(t) /\ loc'[t].result = "true") =>
              /\ file' = FileOf(ContentOf(loc[t].content))
              /\ last_sync' = loc[t].now
              /\ sync_status' = SyncedAt(Strftime(last_sync'))]_vars

\* C8 (as stated): in any reachable state a Sync that finds the remote file
\* missing and returns failure has set the no-database status and leaves a
\* local database that is the empty six-column properties table.
C8_MissingGivesEmptyDb ==
    [][\A t \in Threads :
          (Returns(t) /\ loc'[t].why = "missing" /\ loc'[t].result = "false") =>
              /\ sync_status' = NoDatabaseStatus
              /\ file' = FileOf(EmptyDb)]_vars

\* C8 (amended): a Sync that finds the remote file missing never returns
\* success; when it returns, the status is the no-database status; its
\* bootstrap creates the empty six-column database only where there is no
\* file or an empty file, and leaves every other file as it is.
C8_BootstrapIfNotExists ==
    [][\A t \in Threads :
          /\ (Returns(t) /\ loc'[t].why = "missing") =>
                /\ loc'[t].result \in {"false", "raised"}
                /\ loc'[t].result = "false" => sync_status' = NoDatabaseStatus
          /\ (pc[t] = "bootstrap" /\ pc'[t] = "set_no_database") =>
                file' = IF ~file.exists \/ file.data = <<>>
                        THEN FileOf(EmptyDb) ELSE file]_vars
C8_Witness ==
    \E t \in Threads :
        /\ pc[t] = "ret"
        /\ loc[t].why = "missing"
        /\ loc[t].result = "false"
        /\ sync_status = NoDatabaseStatus
        /\ last_sync # None
        /\ file.data \in {ContentOf(v) : v \in Versions}

\* C9: last_sync changes only when a download has succeeded and been
\* written, and it never decreases.
C9_LastSyncMonotone ==
    [][/\ last_sync' >= last_sync
       /\ last_sync' # last_sync =>
             \E t \in Threads : /\ pc[t] = "set_last_sync"
                                /\ loc[t].content \in Versions
                                /\ loc[t].wrote]_vars

\* C10: after construction no step changes enabled, and /api/sync_status
\* reports that value.
C10_EnabledImmutable ==
    [][/\ phase # "start" => enabled' = enabled
       /\ seen'.handler = "sync_status" =>
             seen'.enabled = ConstructEnabled(cred)]_vars
C10_Witness ==
    /\ phase = "serving"
    /\ enabled
    /\ last_sync # None
    /\ sync_status.text = "Sync error: "
    /\ seen.handler = "sync_status"
    /\ seen.enabled

\* C11: handling GET /, /api/sync_status, /api/dashboard_stats,
\* /api/properties or /health leaves the status, last_sync, enabled and the
\* local file as they are; while requests are served, a step that changes
\* one of them is a step of sync_database.
C11_OnlySyncMutates ==
    [][/\ seen'.handler \in ReadHandlers \cup StaticHandlers =>
             /\ sync_status' = sync_status
             /\ last_sync' = last_sync
             /\ enabled' = enabled
             /\ file' = file
       /\ (phase = "serving" /\ <<sync_status, last_sync, enabled, file>>'
                                   # <<sync_status, last_sync, enabled, file>>) =>
             \E t \in {"timer", "req"} : SyncStep(t)]_vars
C11_Witness ==
    /\ seen.handler = "dashboard_stats"
    /\ ~seen.file.exists
    /\ ~file.exists
    /\ enabled
    /\ \E t \in Threads : pc[t] = "open"

\* C12: a read handler always answers with status 200: without a file
\* /api/sync_status gives db_size 0 and last_update null,
\* /api/dashboard_stats the error 'No database found', /api/properties an
\* empty list; with a file whose query fails they give a null last_update
\* or a payload with an error field.
C12_ReadHandlersNeverRaise ==
    seen.handler \in ReadHandlers =>
        /\ seen.answer.http = 200
        /\ ~seen.file.exists =>
              /\ seen.handler = "sync_status" =>
                    seen.answer.db_size = 0 /\ seen.answer.last_update = NULL
              /\ seen.handler = "dashboard_stats" =>
                    seen.answer.payload = "error: No database found"
              /\ seen.handler = "get_properties" =>
                    seen.answer.payload = "properties: []"
        /\ (seen.file.exists /\ seen.query = "failed") =>
              /\ seen.handler = "sync_status" => seen.answer.last_update = NULL
              /\ seen.handler = "dashboard_stats" =>
                    seen.answer.payload = "error: message"
              /\ seen.handler = "get_properties" =>
                    seen.answer.payload = "properties: [], error: message"
C12_Witness ==
    /\ seen.handler = "get_properties"
    /\ seen.file = FileOf(EmptyDb)
    /\ seen.query = "failed"
    /\ seen.answer.http = 200
    /\ seen.answer.payload = "properties: [], error: message"

\* C13: every row /api/properties returns is a row of the snapshot with the
\* table's maximum scrape_date and has a status different from 'Removed'.
C13_ListedFromSnapshot ==
    (out.kind = "properties" /\ ~out.error) =>
        \A i \in 1..Len(out.properties) :
            /\ out.properties[i].status # "Removed"
            /\ \E r \in table :
                  /\ \A o \in table :
                        Rank(Dates, o.scrape_date) <= Rank(Dates, r.scrape_date)
                  /\ r.case_number = out.properties[i].case_number
                  /\ r.state = out.properties[i].state
                  /\ r.price = out.properties[i].price
                  /\ r.status = out.properties[i].status
C13_Witness ==
    /\ out.kind = "properties"
    /\ Len(out.properties) = 1
    /\ Cardinality(table) = 2
    /\ \E r \in table : r.scrape_date = Dates[1] \/ r.status = "Removed"

C15_StatsCounts ==
    out.kind = "stats" =>
        LET S == {r \in table : \A o \in table :
                     Rank(Dates, o.scrape_date) <= Rank(Dates, r.scrape_date)}
        IN  /\ out.total_active =
                  Cardinality({r.case_number : r \in {x \in S : x.status # "Removed"}})
            /\ out.new_today =
                  Cardinality({r.case_number : r \in {x \in S : x.status = "New Inventory"}})
            /\ out.reduced_today =
                  Cardinality({r.case_number : r \in {x \in S : x.status = "Price Reduced"}})
            /\ out.states = Cardinality({r.state : r \in S})

\* C16: on a properties table without rows /api/dashboard_stats answers 0
\* for every number and 'Never' for last_scrape, without error; on a table
\* with rows last_scrape is the maximum scrape_date of the table.
C16_EmptyTableStats ==
    out.kind = "stats" =>
        /\ table = {} =>
              /\ out.total_active = 0
              /\ out.new_today = 0
              /\ out.reduced_today = 0
              /\ out.avg_price = Zero
              /\ out.states = 0
              /\ out.last_scrape = "Never"
              /\ ~out.error
        /\ table # {} =>
              /\ out.last_scrape \in {r.scrape_date : r \in table}
              /\ \A r \in table :
                    Rank(Dates, r.scrape_date) <= Rank(Dates, out.last_scrape)
C16_Witness ==
    /\ out.kind = "stats"
    /\ schema = "bootstrap"
    /\ table = {}
    /\ out.last_scrape = "Never"

\* C17: whenever the table body shows the result of filtering, it shows
\* exactly the loaded rows that pass the tile ('all' passes every row,
\* 'Existing' the rows that are neither 'New Inventory' nor 'Price
\* Reduced', another tile the rows of that status), the state, the price
\* bucket (a missing price is 0), the beds option ('4' means 4 or more) and
\* the search text (substring of case_number + ' ' + address, letter case
\* ignored); when no row passes it shows 'No properties found'.
C17_ShownRowsPassAllFilters ==
    properties_tbody.kind \in {"rows", "none"} =>
        LET Shown == Range(properties_tbody.rows)
            Lo(c) == IF c = "A" THEN "a" ELSE IF c = "B" THEN "b"
                     ELSE IF c = "C" THEN "c" ELSE c
            Text(p) == p.case_number \o <<" ">> \o p.address
            Match(p) ==
                \E i \in 0..(Len(Text(p)) - Len(search_input)) :
                    \A j \in 1..Len(search_input) :
                        Lo(Text(p)[i + j]) = Lo(search_input[j])
            Price(p) == IF p.price = NullNum THEN 0 ELSE p.price
            Beds(p) == IF p.bedrooms = NullNum THEN 0 ELSE p.bedrooms
            Ok(p) ==
                /\ \/ currentStatusFilter = "all"
                   \/ /\ currentStatusFilter = "Existing"
                      /\ p.status \notin {"New Inventory", "Price Reduced"}
                   \/ p.status = currentStatusFilter
                /\ state_filter \in {"", p.state}
                /\ \/ price_filter = ""
                   \/ price_filter = "0-50000" /\ 0 <= Price(p) /\ Price(p) <= 50000
                   \/ price_filter = "50000-100000"
                        /\ 50000 <= Price(p) /\ Price(p) <= 100000
                /\ \/ beds_filter = ""
                   \/ beds_filter = "3" /\ Beds(p) = 3
                   \/ beds_filter = "4" /\ Beds(p) >= 4
                /\ Match(p)
        IN  /\ Shown = {p \in Range(allProperties) : Ok(p)}
            /\ Len(properties_tbody.rows) = Cardinality(Shown)
            /\ properties_tbody.kind = "none" <=> Shown = {}
C17_Witness ==
    /\ properties_tbody.kind = "rows"
    /\ Len(allProperties) = 2
    /\ Len(properties_tbody.rows) = 1
    /\ properties_tbody.rows[1].price = NullNum
    /\ price_filter = "0-50000"
    /\ search_input = <<"1", " ", "B">>
    /\ currentStatusFilter = "New Inventory"
    /\ state_filter = "AL"
    /\ beds_filter = "3"

\* C18: a click on 'Clear Filters' leaves the four controls at their
\* defaults and the tile selection at 'all' and shows all loaded
\* properties; a click on it in the state it leaves changes nothing.
Cleared ==
    /\ state_filter = ""
    /\ price_filter = ""
    /\ beds_filter = ""
    /\ search_input = <<>>
    /\ currentStatusFilter = "all"
    /\ filteredProperties = allProperties
    /\ properties_tbody.kind \in {"rows", "none"}
    /\ properties_tbody.rows = allProperties
    /\ result_count = Len(allProperties)
C18_ClearResetsIdempotent ==
    [][ClearAllFilters => /\ Cleared'
                          /\ Cleared => UNCHANGED uiVars]_vars
C18_Witness ==
    /\ Cleared
    /\ Len(allProperties) = 2
    /\ sortColumn = "price"
    /\ sortDirection = "desc"

\* C19: a click on the header of price, bedrooms or days_on_market sorts
\* ascending when the column was not the sort column and reverses the
\* direction when it was, so repeated clicks give ascending, descending,
\* ascending; after the click the rows shown are the rows shown before,
\* ordered by the number in that column (a missing value is 0) in the new
\* direction.
C19_NumericSortCycles ==
    [][\A c \in NumericColumns :
          SortTable(c) =>
             LET P == properties_tbody'.rows
                 Num(p) == IF p[c] = NullNum THEN 0 ELSE p[c]
             IN  /\ sortColumn' = c
                 /\ sortDirection' =
                       (IF sortColumn # c THEN "asc"
                        ELSE IF sortDirection = "asc" THEN "desc" ELSE "asc")
                 /\ Range(P) = Range(filteredProperties)
                 /\ Len(P) = Len(filteredProperties)
                 /\ \A i, j \in 1..Len(P) :
                       i < j => IF sortDirection' = "asc"
                                THEN Num(P[i]) <= Num(P[j])
                                ELSE Num(P[i]) >= Num(P[j])]_vars
C19_Witness ==
    /\ sortColumn = "price"
    /\ sortDirection = "desc"
    /\ Len(properties_tbody.rows) = 2
    /\ properties_tbody.rows[2].price = NullNum
    /\ properties_tbody.rows[1].price > 0
    /\ allProperties[1].price = NullNum

\* C20: the error states of an enabled component are left again: while
\* requests are served the job of an enabled component is registered; after
\* a sync_database that returned False with 'Dropbox API error', 'Sync
\* error' or the no-database status the timer starts another attempt; and
\* an attempt of the timer that has downloaded and written the file leads
\* to the status 'Synced at ...' with last_sync set.
FailedSync ==
    \E t \in Threads :
        /\ pc[t] = "ret"
        /\ loc[t].result = "false"
        /\ loc[t].why \in {"api", "other", "missing"}
C20_ErrorsNotAbsorbing ==
    /\ []((enabled /\ phase = "serving") => scheduled)
    /\ FailedSync ~> (pc["timer"] = "download")
    /\ (pc["timer"] = "now")
          ~> (sync_status.text = "Synced at " /\ last_sync # None)
C20_Witness ==
    /\ pc["timer"] = "ret"
    /\ loc["timer"].result = "false"
    /\ loc["timer"].why = "api"
    /\ sync_status.text = "Dropbox API error: "
    /\ last_sync # None
    /\ enabled
    /\ scheduled

\* C24: in every /api/force_sync response the status is the one written by
\* the sync_database invocation of that request, so success is true exactly
\* when the status has the form 'Synced at ...', also while the job or
\* another forced sync runs.
C24_ForceSyncStatusOwn ==
    resp.success \in {"true", "false"} =>
        (resp.success = "true" <=> resp.status.text = "Synced at ")

\* The latest step has sent a response.
Answered == seen.handler # "none" \/ resp.success # "none"
\* Where the main thread, the job and the request threads can be in each
\* phase of the initialisation, and what status a response can carry.
StartupOrder ==
    /\ pc["main"] # "idle" =>
          /\ phase = "initial"
          /\ enabled
          /\ ~scheduled
          /\ pc["timer"] = "idle"
          /\ pc["req"] = "idle"
          /\ ~Answered
    /\ (scheduled \/ pc["timer"] # "idle" \/ pc["req"] # "idle" \/ Answered)
          => phase = "serving"
    /\ (enabled /\ phase \in {"synced", "serving"}) =>
          /\ "files_download" \in calls
          /\ sync_status.text \notin {"Connected", "Not initialized"}
    /\ (enabled /\ resp.success # "none") =>
          resp.status.text \notin {"Connected", "Not initialized"}
\* The main thread enters sync_database only from lines 122-123, and the
\* initialisation passes them once.
InitialSyncOnce ==
    /\ (pc["main"] = "idle" /\ pc'["main"] # "idle") =>
          (phase = "constructed" /\ phase' = "initial")
    /\ (phase' = "constructed") => (phase \in {"start", "constructed"})
    /\ (phase' = "initial") => (phase \in {"constructed", "initial"})
    /\ (phase = "initial" /\ phase' # "initial") =>
          (pc["main"] = "ret" /\ pc'["main"] = "idle")

\* C26: in an enabled process exactly one initial sync runs, after the
\* construction, and it has run to its end before the 'db_sync' job is
\* registered and before any request is handled; so no response of an
\* enabled process reports 'Connected' or 'Not initialized', and no run of
\* the job overlaps the initial sync.
C26_StartupOrdering == []StartupOrder /\ [][InitialSyncOnce]_vars
C26_Witness ==
    /\ enabled
    /\ seen.handler = "sync_status"
    /\ scheduled
    /\ pc["timer"] = "download"
    /\ sync_status = NoDatabaseStatus

\* C23: after every event of the page (load, refresh, tile click, filter
\* change, search, clear, sort) the result counter is the number of loaded
\* properties that pass all current filters, and it is the number of rows
\* the table shows.
C23_CounterMatchesRows ==
    /\ result_count = Len(Filter(allProperties, currentStatusFilter,
                                 state_filter, price_filter, beds_filter,
                                 search_input))
    /\ result_count = Len(properties_tbody.rows)

\* C25: after any sequence of loads, refreshes, tile clicks, filter
\* changes, searches, clears and header clicks the rows shown are ordered
\* by the current sort column and direction (state ascending at first).
C25_RowsInSortOrder ==
    \A i, j \in 1..Len(properties_tbody.rows) :
        i < j => Compare(sortColumn, sortDirection, properties_tbody.rows[i],
                         properties_tbody.rows[j]) <= 0

\* C21: a click on 'Force Sync' disables the button and calls
\* /api/force_sync; when that call has ended, with success true, with
\* success false or with a failed fetch, the page fetches the sync status,
\* the statistics and the property list again, tells the operator whether
\* the sync succeeded, and enables the button again.
C21_ForceSyncRefetches ==
    [][/\ (~btn.disabled /\ btn'.disabled) =>
             (btn'.textContent = "Syncing..." /\ alerted' = "none")
       /\ (btn.disabled /\ ~btn'.disabled) =>
             /\ reloading' = Loads
             /\ alerted' # "none"
             /\ btn'.textContent = "Force Sync"]_vars

\* C22: when the fetch of one region fails, that region shows an inline
\* 'error loading' message, and the other two regions stay as their own
\* answers have rendered them.
C22_RegionsFailAlone ==
    [][/\ LoadSyncStatus(FetchFailed) =>
             /\ sync_text'.kind = "error"
             /\ UNCHANGED <<stats_grid, properties_tbody, result_count>>
       /\ LoadStats(FetchFailed) =>
             /\ stats_grid'.kind = "error"
             /\ UNCHANGED <<sync_text, properties_tbody, result_count>>
       /\ LoadProperties(FetchFailed) =>
             /\ properties_tbody'.kind = "error"
             /\ UNCHANGED <<sync_text, stats_grid>>]_vars

====
